---- MODULE Spec2Model ----
(***************************************************************************)
(* A model of SynthSeg/supervised_training.py: the shape resolution        *)
(* get_shapes, the construction of the augmentation graph                  *)
(* build_augmentation_model, the sample generator build_model_inputs and   *)
(* the driver supervised_training.                                         *)
(*                                                                         *)
(* Python values: None is the empty tuple and a present value x is <<x>>   *)
(* (so that an optional argument can be compared with either); a shape is  *)
(* a tuple of integers; a printed line is a record.                        *)
(***************************************************************************)
EXTENDS Integers, Sequences, FiniteSets, TLC

\* ------------------------------------------------------------- bounds
\* the largest axis of a native shape, and of a requested crop shape
MaxDim == 4
MaxReq == 5
\* the largest output_div_by_n
MaxDiv == 3
\* the most files in the image and in the label directory
MaxFiles == 3
\* the largest batchsize
MaxBatch == 2
\* the most channels of an image
MaxChannels == 2
\* the largest wl2_epochs and dice_epochs
MaxEpochs == 1
\* the longest volume flipped, and the most flips applied to it
FlipLen == 2
MaxFlips == 2

None == <<>>
Some(x) == <<x>>
Val(o) == o[1]

Min(a, b) == IF a <= b THEN a ELSE b

\* ------------------------------------------------ ext.lab2im.utils helpers
\* utils.reformat_to_list(var, length): a single number (a tuple of one entry
\* here) is repeated `length` times, a list of `length` entries is kept.
reformat_to_list(var, length) ==
    IF Len(var) = 1 THEN [i \in 1..length |-> var[1]] ELSE var

\* utils.find_closest_number_divisible_by_m(n, m, smaller_ans=True): n itself when
\* m divides it, else the multiple of m just below n.
find_closest_number_divisible_by_m(n, m) ==
    IF n % m = 0 THEN n ELSE (n \div m) * m

\* ----------------------------------------------------------- get_shapes
\* A variant: the code without its clamping line 277. C1 fails of it.
get_shapes_unclamped(im_shape, crop_shape, output_div_by_n) ==
    LET n_dims == Len(im_shape) IN
    IF crop_shape # None
    THEN LET req == reformat_to_list(Val(crop_shape), n_dims) IN
         IF output_div_by_n # None
         THEN [shape |-> [i \in 1..n_dims |->
                   find_closest_number_divisible_by_m(req[i], Val(output_div_by_n))],
               printed |-> <<>>]
         ELSE [shape |-> req, printed |-> <<>>]
    ELSE IF output_div_by_n # None
         THEN [shape |-> [i \in 1..n_dims |->
                   find_closest_number_divisible_by_m(im_shape[i], Val(output_div_by_n))],
               printed |-> <<>>]
         ELSE [shape |-> im_shape, printed |-> <<>>]

\* get_shapes(im_shape, crop_shape, output_div_by_n): the returned crop shape and
\* the lines it prints.
get_shapes(im_shape, crop_shape, output_div_by_n) ==
    LET n_dims == Len(im_shape) IN
    IF crop_shape # None
    THEN \* crop_shape specified
         LET req == reformat_to_list(Val(crop_shape), n_dims)
             \* make sure that crop_shape is smaller or equal to label shape
             clamped == [i \in 1..n_dims |-> Min(im_shape[i], req[i])]
         IN  IF output_div_by_n # None
             THEN LET tmp_shape == [i \in 1..n_dims |->
                          find_closest_number_divisible_by_m(clamped[i], Val(output_div_by_n))]
                  IN  IF clamped # tmp_shape
                      THEN [shape |-> tmp_shape,
                            printed |-> << [msg |-> "crop_shape not divisible, changed",
                                            from |-> clamped,
                                            by |-> Val(output_div_by_n),
                                            to |-> tmp_shape] >>]
                      ELSE [shape |-> clamped, printed |-> <<>>]
             ELSE [shape |-> clamped, printed |-> <<>>]
    ELSE \* no crop_shape specified
         IF output_div_by_n # None
         THEN [shape |-> [i \in 1..n_dims |->
                   find_closest_number_divisible_by_m(im_shape[i], Val(output_div_by_n))],
               printed |-> <<>>]
         ELSE [shape |-> im_shape, printed |-> <<>>]

\* ------------------------------------------- ext.lab2im label conversion
Range(f) == {f[i] : i \in DOMAIN f}

SeqMax(f) == CHOOSE m \in Range(f) : \A x \in Range(f) : x <= m

\* utils.rearrange_label_list(label_list): the dense list 0..N-1 and the lookup
\* table over 0..max(label_list) that sends the k-th label of the list to k-1
\* and every other id to 0.
rearrange_label_list(label_list) ==
    [new_label_list |-> [k \in 1..Len(label_list) |-> k - 1],
     lut |-> [id \in 0..SeqMax(label_list) |->
                IF id \in Range(label_list)
                THEN (CHOOSE k \in 1..Len(label_list) : label_list[k] = id) - 1
                ELSE 0]]

\* l2i_et.convert_labels(label_map, labels_list): every value x of the label map
\* becomes labels_list[x], counted from 0.
convert_labels(x, labels_list) ==
    IF 0 \in DOMAIN labels_list THEN labels_list[x] ELSE labels_list[x + 1]

\* ------------------------------------------------ build_augmentation_model
\* The names the module binds at import (lines 2-21). A call through any other
\* global name raises NameError when the statement is executed.
ModuleNames ==
    {"os", "np", "tf", "KL", "K", "npr", "Model", "metrics_model", "train_model",
     "utils", "edit_volumes", "nrn_models", "nrn_layers", "l2i_et", "l2i_sa", "l2i_ia",
     "supervised_training", "build_augmentation_model", "build_model_inputs", "get_shapes"}

Bound(name) == name \in ModuleNames

\* What a function leaves behind when the statement at `line` raises.
Raise(frame, error, what, line) ==
    [frame EXCEPT !.raised = Some([error |-> error, what |-> what, line |-> line])]

\* NameError: name '<name>' is not defined
NameError(frame, name, line) == Raise(frame, "NameError", name, line)

\* A variant of the test of lines 177-178: a bound that is merely falsy taken
\* as disabling. C6 as amended fails of it.
is_truthy(x) == x \notin {"False", "None", "0"}

\* `x is not False`: only the value False itself disables a deformation.
is_not_False(x) == x # "False"

\* A variant of line 216: the dense list in place of the caller's. C8 as
\* amended fails of it.
labels_not_decoded(a, f, dense) == convert_labels(dense, f.new_seg_labels)

\* line 174: convert labels to new_label_list
labels_encoded(a, f, id) == convert_labels(id, f.lut)

\* line 216: convert labels back to original values
labels_decoded(a, f, dense) == convert_labels(dense, a.segmentation_labels)

\* The spatial axes of a tensor shape give way to `shape`, the channel axis stays.
Resized(tensor, shape) == Some(shape \o <<Val(tensor)[Len(Val(tensor))]>>)

\* lines 161-174: the shapes, the lookup table, the two inputs, the encoding.
bam_inputs(a) ==
    LET shapes == get_shapes(a.im_shape, a.output_shape, a.output_div_by_n)
        rearranged == rearrange_label_list(a.segmentation_labels)
    IN  [printed |-> shapes.printed,
         crop_shape |-> shapes.shape,
         new_seg_labels |-> rearranged.new_label_list,
         lut |-> rearranged.lut,
         layers |-> <<"convert_labels(lut)">>,
         labels |-> Some(a.im_shape \o <<1>>),
         image |-> None,
         model |-> None,
         raised |-> None]

\* lines 176-188: deform labels
bam_deform(a, f) ==
    IF \/ is_not_False(a.scaling_bounds) \/ is_not_False(a.rotation_bounds)
       \/ is_not_False(a.shearing_bounds) \/ is_not_False(a.translation_bounds)
       \/ is_not_False(a.nonlin_std)
    THEN IF ~Bound("layers")
         THEN NameError(f, "layers", 180)
         ELSE [f EXCEPT !.layers = @ \o <<"RandomSpatialDeformation">>,
                        !.image = Some(a.im_shape \o <<a.n_channels>>)]
    ELSE [f EXCEPT !.image = Some(a.im_shape \o <<a.n_channels>>)]

\* lines 190-194: crop labels
bam_crop(a, f) ==
    IF f.raised # None THEN f
    ELSE IF f.crop_shape # a.im_shape
    THEN IF ~Bound("layers")
         THEN NameError(f, "layers", 194)
         ELSE [f EXCEPT !.layers = @ \o <<"RandomCrop">>,
                        !.labels = Resized(f.labels, f.crop_shape),
                        !.image = Resized(f.image, f.crop_shape)]
    ELSE f

\* lines 196-202: flip labels
bam_flip(a, f) ==
    IF f.raised # None THEN f
    ELSE IF a.flipping
    THEN IF a.aff = None
         THEN Raise(f, "AssertionError", "aff should not be None if flipping is True", 198)
         ELSE IF ~Bound("layers") THEN NameError(f, "layers", 201)
         ELSE IF ~Bound("get_ras_axes") THEN NameError(f, "get_ras_axes", 201)
         ELSE [f EXCEPT !.layers = @ \o <<"RandomFlip">>]
    ELSE f

\* lines 204-208: apply bias field
bam_bias(a, f) ==
    IF f.raised # None THEN f
    ELSE IF a.bias_field_std = "None"
    THEN Raise(f, "TypeError", "'>' not supported between NoneType and int", 205)
    ELSE IF a.bias_field_std = "num"
    THEN IF ~Bound("layers")
         THEN NameError(f, "layers", 207)
         ELSE [f EXCEPT !.layers = @ \o <<"BiasFieldCorruption">>]
    ELSE f

\* lines 210-213: intensity augmentation (normalisation and a random gamma of
\* standard deviation .5), whatever the arguments
bam_intensity(a, f) ==
    IF f.raised # None THEN f
    ELSE IF ~Bound("layers")
    THEN NameError(f, "layers", 212)
    ELSE [f EXCEPT !.layers = @ \o <<"IntensityAugmentation(normalise, gamma_std=.5)">>]

\* lines 215-223: decode the labels, build and return the model
bam_outputs(a, f) ==
    IF f.raised # None THEN f
    ELSE LET g == [f EXCEPT !.layers = @ \o <<"convert_labels(segmentation_labels)">>]
         IN  IF ~Bound("list_inputs")
             THEN NameError(g, "list_inputs", 221)
             ELSE [g EXCEPT !.model = Some([image |-> Val(g.image),
                                            labels |-> Val(g.labels)])]

\* build_augmentation_model(...), from its arguments (the record a) to the
\* statement that ends it: the layers constructed so far, the shapes of the
\* tensors `labels` and `image`, the model returned (None when it raises).
build_augmentation_model(a) ==
    bam_outputs(a,
      bam_intensity(a,
        bam_bias(a,
          bam_flip(a,
            bam_crop(a,
              bam_deform(a, bam_inputs(a)))))))

\* ---------------------------------------------------------- the flip stage
\* A variant of line 201: the labels left as they are. C7 fails of it.
random_flip_arguments_unswapped(new_seg_labels, n_neutral_labels) ==
    [flip_axis |-> 0, swap_labels |-> <<FALSE, FALSE>>,
     label_list |-> new_seg_labels, n_neutral_labels |-> n_neutral_labels]

\* lines 201-202: the arguments of RandomFlip, applied to [labels, image]; with
\* aff the identity, get_ras_axes(aff, n_dims)[0] is axis 0.
random_flip_arguments(new_seg_labels, n_neutral_labels) ==
    [flip_axis |-> 0, swap_labels |-> <<TRUE, FALSE>>,
     label_list |-> new_seg_labels, n_neutral_labels |-> n_neutral_labels]

\* RandomFlip's swap of one dense label: the first n_neutral_labels of the list
\* stay, the others swap with their neighbour, in consecutive pairs.
swap_lateral(flip, d) ==
    IF d < flip.n_neutral_labels THEN d
    ELSE IF (d - flip.n_neutral_labels) % 2 = 0 THEN d + 1 ELSE d - 1

\* RandomFlip when it fires, on the k-th of its tensors (one-dimensional here):
\* mirrored along the flip axis, its values swapped when swap_labels[k] says so.
RandomFlip(flip, k, tensor) ==
    [i \in 1..Len(tensor) |->
        LET x == tensor[Len(tensor) + 1 - i]
        IN  IF flip.swap_labels[k] THEN swap_lateral(flip, x) ELSE x]

\* One pass of a label volume and its image through the encoding (line 174), a
\* flip that fires (lines 197-202) and the decoding (line 216).
flip_pass(a, labels, image) ==
    LET rearranged == rearrange_label_list(a.segmentation_labels)
        f == [lut |-> rearranged.lut, new_seg_labels |-> rearranged.new_label_list]
        flip == random_flip_arguments(f.new_seg_labels, a.n_neutral_labels)
        encoded == [i \in 1..Len(labels) |-> labels_encoded(a, f, labels[i])]
        flipped == RandomFlip(flip, 1, encoded)
    IN  [labels |-> [i \in 1..Len(labels) |-> labels_decoded(a, f, flipped[i])],
         image |-> RandomFlip(flip, 2, image)]

\* ------------------------------------------------------ build_model_inputs
\* An array is its shape and, along its first axis, the files its entries were
\* read from.
\* utils.load_volume(path): the volume stored at `path`; an image with several
\* channels has them as its last axis.
load_volume(kind, idx, im_shape, n_channels) ==
    [shape |-> IF kind = "image" /\ n_channels > 1 THEN im_shape \o <<n_channels>>
               ELSE im_shape,
     files |-> <<kind, idx>>]

\* utils.add_axis(x, axis): axes of size 1 added in front (0) and at the end (-1).
add_axis(x, axis) ==
    LET front == IF 0 \in Range(axis) THEN <<1>> \o x.shape ELSE x.shape
    IN  [shape |-> IF -1 \in Range(axis) THEN front \o <<1>> ELSE front,
         files |-> IF 0 \in Range(axis) THEN <<x.files>> ELSE x.files]

RECURSIVE np_concatenate(_)
\* np.concatenate(item, 0): the arrays joined along their first axis.
np_concatenate(item) ==
    IF Len(item) = 1 THEN item[1]
    ELSE LET rest == np_concatenate(Tail(item))
         IN  [shape |-> <<item[1].shape[1] + rest.shape[1]>> \o Tail(item[1].shape),
              files |-> item[1].files \o rest.files]

\* line 237: npr.randint(len(path_label_maps), size=batchsize), the draws it can make
randint(high, size) == [1..size -> 0..(high - 1)]

\* lines 243-254, one turn of the for loop: the two arrays appended
loaded_pair(idx, im_shape, n_channels) ==
    [image |-> IF n_channels > 1
               THEN add_axis(load_volume("image", idx, im_shape, n_channels), <<0>>)
               ELSE add_axis(load_volume("image", idx, im_shape, n_channels), <<0, -1>>),
     labels |-> add_axis(load_volume("labels", idx, im_shape, n_channels), <<0, -1>>)]

\* A variant of lines 258-261: the else branch taking the first entry of the
\* first array rather than the first array. C5 as amended fails of it.
list_inputs_squeezed(list_images, list_label_maps, batchsize) ==
    IF batchsize > 1
    THEN <<np_concatenate(list_images), np_concatenate(list_label_maps)>>
    ELSE << [shape |-> Tail(list_images[1].shape), files |-> list_images[1].files[1]],
            [shape |-> Tail(list_label_maps[1].shape), files |-> list_label_maps[1].files[1]] >>

\* lines 256-261: build list of inputs of augmentation model
build_list_inputs(list_images, list_label_maps, batchsize) ==
    IF batchsize > 1
    THEN <<np_concatenate(list_images), np_concatenate(list_label_maps)>>
    ELSE <<list_images[1], list_label_maps[1]>>

\* A variant of the loop of lines 243-254: each drawn file read once only in a
\* pull. C9 fails of it.
volume_reads_once(indices, upto) ==
    LET first(k) == \A j \in 1..(k - 1) : indices[j] # indices[k]
        reads[k \in 0..upto] ==
            IF k = 0 THEN <<>>
            ELSE IF first(k)
                 THEN reads[k - 1] \o << <<"image", indices[k]>>, <<"labels", indices[k]>> >>
                 ELSE reads[k - 1]
    IN  reads[upto]

\* lines 246 and 253: the files read from storage in the first `upto` turns of
\* the for loop, in order
volume_reads(indices, upto) ==
    LET reads[k \in 0..upto] ==
            IF k = 0 THEN <<>>
            ELSE reads[k - 1] \o << <<"image", indices[k]>>, <<"labels", indices[k]>> >>
    IN  reads[upto]

\* line 231, run when the generator is first pulled: the channels of the first image
model_inputs_start(g) ==
    IF g.pc # "created" THEN [g EXCEPT !.reads = <<>>]
    ELSE IF g.args.n_images = 0
    THEN \* path_images[0]: list index out of range
         [g EXCEPT !.pc = "raised",
                   !.raised = Some([error |-> "IndexError", line |-> 231]),
                   !.reads = <<>>]
    ELSE [g EXCEPT !.n_channels = Some(g.args.n_channels),
                   !.reads = << <<"get_volume_info", 0>> >>]

\* lines 236-263, one turn of `while True` with the indices drawn: the batch
\* yielded, or the error that ends the generator, and the files read.
model_inputs_turn(g, indices) ==
    LET a == g.args
        n_channels == Val(g.n_channels)
        bad == {k \in 1..a.batchsize : indices[k] >= a.n_images}
    IN  IF bad # {}
        THEN \* path_images[idx]: list index out of range
             LET k0 == CHOOSE k \in bad : \A j \in bad : k <= j
             IN  [g EXCEPT !.pc = "raised",
                           !.raised = Some([error |-> "IndexError", line |-> 246]),
                           !.yielded = None,
                           !.reads = @ \o volume_reads(indices, k0 - 1)]
        ELSE LET pairs == [k \in 1..a.batchsize |->
                             loaded_pair(indices[k], a.im_shape, n_channels)]
                 list_images == [k \in 1..a.batchsize |-> pairs[k].image]
                 list_label_maps == [k \in 1..a.batchsize |-> pairs[k].labels]
             IN  [g EXCEPT !.pc = "suspended",
                           !.yielded = Some([indices |-> indices,
                                             list_inputs |-> build_list_inputs(
                                                 list_images, list_label_maps, a.batchsize)]),
                           !.reads = @ \o volume_reads(indices, a.batchsize)]

\* ------------------------------------------------------ supervised_training
RECURSIVE Pow2(_)
Pow2(n) == IF n = 0 THEN 1 ELSE 2 * Pow2(n - 1)

\* A variant of line 62: no comparison made. C3 fails of it.
same_number_of_files_unchecked(n_images, n_labels) == TRUE

\* line 62: len(path_images) == len(path_labels)
same_number_of_files(n_images, n_labels) == n_images = n_labels

\* line 56: (wl2_epochs > 0) | (dice_epochs > 0)
some_epochs(wl2_epochs, dice_epochs) == (wl2_epochs > 0) \/ (dice_epochs > 0)

\* utils.get_list_labels(label_list=path_segmentation_labels, labels_dir=...): the
\* list is read from the file given, and with None from every label map of
\* labels_dir.
get_list_labels(path_segmentation_labels, n_label_maps) ==
    IF path_segmentation_labels # None
    THEN <<"load_label_list">>
    ELSE [k \in 1..n_label_maps |-> "load_volume"]

\* lines 114-141: the two training phases, as the calls they make in order
training_phases(wl2_epochs, dice_epochs, load_model_file) ==
    (IF wl2_epochs > 0
     THEN <<"metrics_model(wl2)">>
          \o (IF load_model_file # None
              THEN <<"wl2_model.load_weights(load_model_file)">> ELSE <<>>)
          \o <<"train_model(wl2)">>
     ELSE <<>>)
    \o
    (IF dice_epochs > 0
     THEN <<"metrics_model(dice)">>
          \o (IF wl2_epochs > 0
              THEN <<"dice_model.load_weights(wl2_<wl2_epochs>.h5)">>
              ELSE IF load_model_file # None
                   THEN <<"dice_model.load_weights(load_model_file)">> ELSE <<>>)
          \o <<"train_model(dice)">>
     ELSE <<>>)

\* The arguments supervised_training hands to build_augmentation_model (lines 77-93).
augmentation_args(a) ==
    [im_shape |-> a.im_shape,
     n_channels |-> a.n_channels,
     segmentation_labels |-> a.label_list,
     n_neutral_labels |-> a.n_neutral_labels,
     output_shape |-> a.output_shape,
     output_div_by_n |-> Some(Pow2(a.n_levels)),
     flipping |-> a.flipping,
     aff |-> Some("eye(4)"),
     scaling_bounds |-> a.scaling_bounds,
     rotation_bounds |-> a.rotation_bounds,
     shearing_bounds |-> a.shearing_bounds,
     translation_bounds |-> a.translation_bounds,
     nonlin_std |-> a.nonlin_std,
     bias_field_std |-> a.bias_field_std]

\* supervised_training(...), from its arguments (the record a) to the statement
\* that ends it: the calls made in order and the error raised, if any.
supervised_training(a) ==
    IF ~some_epochs(a.wl2_epochs, a.dice_epochs)
    THEN [events |-> <<>>,
          raised |-> Some([error |-> "AssertionError",
                           what |-> "either wl2_epochs or dice_epochs must be positive",
                           line |-> 56])]
    ELSE
    LET listed == <<"list_images_in_folder(image_dir)", "list_images_in_folder(labels_dir)">>
    IN
    IF ~same_number_of_files(a.n_images, a.n_labels)
    THEN [events |-> listed,
          raised |-> Some([error |-> "AssertionError",
                           what |-> "There should be as many images as label maps.",
                           line |-> 62])]
    ELSE
    LET prepared == listed
                    \o get_list_labels(a.path_segmentation_labels, a.n_labels)
                    \o <<"mkdir(model_dir)", "mkdir(log_dir)",
                         "get_volume_info(path_images[0])", "build_augmentation_model">>
        augmentation_model == build_augmentation_model(augmentation_args(a))
    IN
    IF augmentation_model.raised # None
    THEN [events |-> prepared,
          raised |-> Some([error |-> Val(augmentation_model.raised).error,
                           what |-> Val(augmentation_model.raised).what,
                           line |-> 78])]
    ELSE [events |-> prepared
                     \o <<"build_model_inputs", "build_training_generator", "unet">>
                     \o training_phases(a.wl2_epochs, a.dice_epochs, a.load_model_file),
          raised |-> None]

\* ------------------------------------------------------------- inputs
Shapes(maxAxis) ==
    {<<a>> : a \in 1..maxAxis} \cup {<<a, b>> : a \in 1..maxAxis, b \in 1..maxAxis}

\* The two scenarios the specification works out, on a 3-D volume.
ScenarioArgs ==
    { [im_shape |-> <<100, 100, 100>>, crop_shape |-> None, output_div_by_n |-> Some(32)],
      [im_shape |-> <<100, 100, 100>>, crop_shape |-> Some(<<120, 80, 80>>),
       output_div_by_n |-> None],
      [im_shape |-> <<100, 100, 100>>, crop_shape |-> Some(<<120, 80, 80>>),
       output_div_by_n |-> Some(32)] }

DivByN == {None} \cup {Some(n) : n \in 1..MaxDiv}

GetShapesArgs ==
    ScenarioArgs \cup
    { [im_shape |-> s, crop_shape |-> c, output_div_by_n |-> n] :
        s \in Shapes(MaxDim), c \in {None} \cup {Some(r) : r \in Shapes(MaxReq)}, n \in DivByN }

\* A deformation bound, or bias_field_std: False, None, 0 or a positive number.
BoundValues == {"False", "None", "0", "num"}

\* Label lists with their number of neutral labels: with and without a
\* background label, ascending and not.
LabelLists ==
    { [label_list |-> <<0, 2, 3, 4, 5>>, n_neutral_labels |-> 1],
      [label_list |-> <<3, 2>>, n_neutral_labels |-> 0] }

VolumeShapes == {<<4>>, <<4, 3>>}

\* The arguments of build_augmentation_model, from the choices made for them:
\* b holds the five deformation bounds and bias_field_std.
AugmentationArgs(s, c, l, o, n, f, aff, b) ==
    [im_shape |-> s, n_channels |-> c,
     segmentation_labels |-> l.label_list, n_neutral_labels |-> l.n_neutral_labels,
     output_shape |-> o, output_div_by_n |-> n, flipping |-> f, aff |-> aff,
     scaling_bounds |-> b[1], rotation_bounds |-> b[2], shearing_bounds |-> b[3],
     translation_bounds |-> b[4], nonlin_std |-> b[5], bias_field_std |-> b[6]]

GeneratorArgs ==
    [n_images : 0..MaxFiles, n_labels : 0..MaxFiles, batchsize : 1..MaxBatch,
     n_channels : 1..MaxChannels, im_shape : VolumeShapes]

\* The augmentation settings of a run: the defaults of lines 30-37, each stage
\* set to False/0, and each bound set to 0.
TrainingAugmentations ==
    { [flipping |-> TRUE, scaling_bounds |-> "num", rotation_bounds |-> "num",
       shearing_bounds |-> "num", translation_bounds |-> "False", nonlin_std |-> "num",
       bias_field_std |-> "num"],
      [flipping |-> FALSE, scaling_bounds |-> "False", rotation_bounds |-> "False",
       shearing_bounds |-> "False", translation_bounds |-> "False", nonlin_std |-> "False",
       bias_field_std |-> "0"],
      [flipping |-> FALSE, scaling_bounds |-> "0", rotation_bounds |-> "0",
       shearing_bounds |-> "0", translation_bounds |-> "0", nonlin_std |-> "0",
       bias_field_std |-> "0"] }

TrainingArgs ==
    { [n_images |-> ni, n_labels |-> nl, wl2_epochs |-> w, dice_epochs |-> d,
       path_segmentation_labels |-> p, load_model_file |-> m,
       label_list |-> <<0, 2, 3, 4, 5>>, n_neutral_labels |-> 1,
       im_shape |-> s, n_channels |-> 1, output_shape |-> o, n_levels |-> 1,
       flipping |-> g.flipping, scaling_bounds |-> g.scaling_bounds,
       rotation_bounds |-> g.rotation_bounds, shearing_bounds |-> g.shearing_bounds,
       translation_bounds |-> g.translation_bounds, nonlin_std |-> g.nonlin_std,
       bias_field_std |-> g.bias_field_std] :
        ni \in 1..MaxFiles, nl \in 1..MaxFiles, w \in (-1)..MaxEpochs, d \in (-1)..MaxEpochs,
        p \in {None, Some("labels.npy")}, m \in {None, Some("model.h5")},
        s \in VolumeShapes, o \in {None, Some(<<2>>)}, g \in TrainingAugmentations }

\* ---------------------------------------------------------------- state
VARIABLES
    gs,     \* the call of get_shapes: position, arguments, result, lines printed
    bam,    \* the call of build_augmentation_model: position, arguments, frame
    gen,    \* the generator build_model_inputs returned: position, locals, last batch
    st,     \* the call of supervised_training: position, arguments, calls made, error
    fl      \* a volume in the flip stage: the volume given, as it is now, flips so far

vars == <<gs, bam, gen, st, fl>>

gsIdle == [pc |-> "idle", args |-> None, ret |-> None, printed |-> <<>>]
bamIdle == [pc |-> "idle", args |-> None, frame |-> None]
genNone == [pc |-> "none", args |-> None, n_channels |-> None, yielded |-> None,
            reads |-> <<>>, raised |-> None]
stIdle == [pc |-> "idle", args |-> None, events |-> <<>>, raised |-> None]
flIdle == [pc |-> "idle", args |-> None, labels |-> <<>>, image |-> <<>>, flips |-> 0]

Init ==
    /\ gs = gsIdle
    /\ bam = bamIdle
    /\ gen = genNone
    /\ st = stIdle
    /\ fl = flIdle

\* One call of get_shapes, from its arguments to its return value.
CallGetShapes ==
    /\ gs.pc = "idle"
    /\ \E a \in GetShapesArgs :
         /\ a.crop_shape # None =>
              Len(Val(a.crop_shape)) \in {1, Len(a.im_shape)}
         /\ LET r == get_shapes(a.im_shape, a.crop_shape, a.output_div_by_n)
            IN  gs' = [pc |-> "returned", args |-> Some(a),
                       ret |-> Some(r.shape), printed |-> r.printed]
    /\ UNCHANGED <<bam, gen, st, fl>>

\* The caller takes the result; the next call starts afresh.
ReturnGetShapes ==
    /\ gs.pc = "returned"
    /\ gs' = gsIdle
    /\ UNCHANGED <<bam, gen, st, fl>>

NextShapes == CallGetShapes \/ ReturnGetShapes

SpecShapes == Init /\ [][NextShapes]_vars

\* One call of build_augmentation_model, to its return or to the error it raises.
CallBuildAugmentationModel ==
    /\ bam.pc = "idle"
    /\ \E s \in VolumeShapes, c \in 1..MaxChannels, l \in LabelLists,
          o \in {None, Some(<<2>>), Some(<<4>>)}, n \in {None, Some(2)},
          f \in BOOLEAN, aff \in {None, Some("eye(4)")},
          scaling \in BoundValues, rotation \in {"False", "num"},
          shearing \in {"False", "num"}, translation \in {"False", "num"},
          nonlin \in BoundValues, bias \in BoundValues :
         LET a == AugmentationArgs(s, c, l, o, n, f, aff,
                                   <<scaling, rotation, shearing, translation, nonlin, bias>>)
         IN  bam' = [pc |-> "ended", args |-> Some(a),
                     frame |-> Some(build_augmentation_model(a))]
    /\ UNCHANGED <<gs, gen, st, fl>>

EndBuildAugmentationModel ==
    /\ bam.pc = "ended"
    /\ bam' = bamIdle
    /\ UNCHANGED <<gs, gen, st, fl>>

NextAugmentation == CallBuildAugmentationModel \/ EndBuildAugmentationModel

SpecAugmentation == Init /\ [][NextAugmentation]_vars

\* build_model_inputs(path_images, path_label_maps, batchsize): a generator
\* object; none of its body has run yet.
CreateGenerator ==
    /\ gen.pc = "none"
    /\ \E a \in GeneratorArgs : gen' = [genNone EXCEPT !.pc = "created", !.args = Some(a)]
    /\ UNCHANGED <<gs, bam, st, fl>>

\* next(generator): line 231 on the first pull, then one turn of the loop up to
\* its yield, or to the error that ends the generator.
PullBatch ==
    /\ gen.pc \in {"created", "suspended"}
    /\ LET g == model_inputs_start([gen EXCEPT !.args = Val(gen.args)])
           done(h) == [h EXCEPT !.args = gen.args]
       IN  IF g.pc = "raised"
           THEN gen' = done(g)
           ELSE IF g.args.n_labels = 0
           THEN \* npr.randint(0, size=batchsize)
                gen' = done([g EXCEPT !.pc = "raised", !.yielded = None,
                                      !.raised = Some([error |-> "ValueError", line |-> 237])])
           ELSE \E indices \in randint(g.args.n_labels, g.args.batchsize) :
                    gen' = done(model_inputs_turn(g, indices))
    /\ UNCHANGED <<gs, bam, st, fl>>

\* The generator is dropped (after an error, or by its owner).
DropGenerator ==
    /\ gen.pc \in {"suspended", "raised"}
    /\ gen' = genNone
    /\ UNCHANGED <<gs, bam, st, fl>>

NextGenerator == CreateGenerator \/ PullBatch \/ DropGenerator

SpecGenerator == Init /\ [][NextGenerator]_vars

\* One call of supervised_training, to its return or to the error it raises.
CallSupervisedTraining ==
    /\ st.pc = "idle"
    /\ \E a \in TrainingArgs :
         LET r == supervised_training(a)
         IN  st' = [pc |-> "ended", args |-> Some(a), events |-> r.events,
                    raised |-> r.raised]
    /\ UNCHANGED <<gs, bam, gen, fl>>

EndSupervisedTraining ==
    /\ st.pc = "ended"
    /\ st' = stIdle
    /\ UNCHANGED <<gs, bam, gen, fl>>

NextTraining == CallSupervisedTraining \/ EndSupervisedTraining

SpecTraining == Init /\ [][NextTraining]_vars

\* Label lists whose lateral labels come in pairs, with and without background.
FlipLabelLists ==
    { [segmentation_labels |-> <<0, 2, 3, 4, 5>>, n_neutral_labels |-> 1],
      [segmentation_labels |-> <<0, 14, 2, 41>>, n_neutral_labels |-> 2],
      [segmentation_labels |-> <<3, 2>>, n_neutral_labels |-> 0] }

\* A label volume and its image enter the flip stage.
EnterFlip ==
    /\ fl.pc = "idle"
    /\ \E a \in FlipLabelLists, n \in 2..FlipLen :
         \E labels \in [1..n -> Range(a.segmentation_labels)] :
            fl' = [pc |-> "flipping",
                   args |-> Some([segmentation_labels |-> a.segmentation_labels,
                                  n_neutral_labels |-> a.n_neutral_labels,
                                  labels |-> labels,
                                  image |-> [i \in 1..n |-> 10 * i]]),
                   labels |-> labels, image |-> [i \in 1..n |-> 10 * i], flips |-> 0]
    /\ UNCHANGED <<gs, bam, gen, st>>

\* The flip fires on the volume as it is now.
FlipFires ==
    /\ fl.pc = "flipping"
    /\ fl.flips < MaxFlips
    /\ LET out == flip_pass(Val(fl.args), fl.labels, fl.image)
       IN  fl' = [fl EXCEPT !.labels = out.labels, !.image = out.image, !.flips = @ + 1]
    /\ UNCHANGED <<gs, bam, gen, st>>

LeaveFlip ==
    /\ fl.pc = "flipping"
    /\ fl' = flIdle
    /\ UNCHANGED <<gs, bam, gen, st>>

NextFlip == EnterFlip \/ FlipFires \/ LeaveFlip

SpecFlip == Init /\ [][NextFlip]_vars

\* ------------------------------------------------------- claims: get_shapes
\* The largest multiple of n that is <= x, stated without the code's arithmetic.
LargestMultipleLeq(x, n) ==
    CHOOSE k \in 0..x : k % n = 0 /\ \A j \in 0..x : (j % n = 0) => j <= k

\* What the caller asked get_shapes for: the crop shape when given, else the
\* native shape.
Asked(a) ==
    IF a.crop_shape # None
    THEN reformat_to_list(Val(a.crop_shape), Len(a.im_shape))
    ELSE a.im_shape

\* C1: on every axis get_shapes returns the largest multiple of output_div_by_n
\* that is <= min(native, requested) when a crop shape is given and <= native
\* when none is; with output_div_by_n = None the clamped request, or the native
\* shape, comes back unchanged. Native (100,100,100), no crop, n = 32 gives
\* (96,96,96); the request (120,80,80) on (100,100,100) is clamped to (100,80,80).
C1_ShapeResolved ==
    gs.pc = "returned" =>
        LET a == Val(gs.args)
            shape == Val(gs.ret)
            n_dims == Len(a.im_shape)
            limit(i) == IF a.crop_shape # None
                        THEN Min(a.im_shape[i], Asked(a)[i])
                        ELSE a.im_shape[i]
        IN  /\ DOMAIN shape = 1..n_dims
            /\ \A i \in 1..n_dims :
                 shape[i] = IF a.output_div_by_n = None
                            THEN limit(i)
                            ELSE LargestMultipleLeq(limit(i), Val(a.output_div_by_n))
            /\ (a = [im_shape |-> <<100, 100, 100>>, crop_shape |-> None,
                     output_div_by_n |-> Some(32)]) => shape = <<96, 96, 96>>
            /\ (a = [im_shape |-> <<100, 100, 100>>, crop_shape |-> Some(<<120, 80, 80>>),
                     output_div_by_n |-> None]) => shape = <<100, 80, 80>>

\* A call that both clamps an oversized request and rounds it down.
C1_Witness ==
    /\ gs.pc = "returned"
    /\ Val(gs.args) = [im_shape |-> <<100, 100, 100>>,
                       crop_shape |-> Some(<<120, 80, 80>>),
                       output_div_by_n |-> Some(32)]
    /\ gs.ret = Some(<<96, 64, 64>>)

\* C4: whenever get_shapes returns a shape other than the one the caller asked
\* for (a clamped request, or an axis rounded down, with or without a crop
\* shape), it has printed a diagnostic.
C4_CorrectionsObservable ==
    (gs.pc = "returned" /\ Val(gs.ret) # Asked(Val(gs.args))) => gs.printed # <<>>

\* ---------------------------------------------- claims: build_model_inputs
\* The shape of one stored image with its channel axis: of size 1 for a
\* single-channel image, its own for a multi-channel one.
WithChannelAxis(a) == a.im_shape \o <<a.n_channels>>

\* C5 as stated: in every batch yielded the image has its channel axis (added
\* with size 1, or kept); with batchsize = 1 the yielded arrays have no leading
\* batch axis, with batchsize > 1 they have one of size batchsize.
C5_BatchAxisOmitted ==
    gen.pc = "suspended" =>
        LET a == Val(gen.args)
            images == Val(gen.yielded).list_inputs[1]
            labels == Val(gen.yielded).list_inputs[2]
        IN  IF a.batchsize = 1
            THEN /\ images.shape = WithChannelAxis(a)
                 /\ labels.shape = a.im_shape \o <<1>>
            ELSE /\ images.shape = <<a.batchsize>> \o WithChannelAxis(a)
                 /\ labels.shape = <<a.batchsize>> \o a.im_shape \o <<1>>

\* C5 as amended: in every batch yielded the image has its channel axis (added
\* with size 1, or kept) and both arrays have a leading axis of size batchsize,
\* also when batchsize = 1.
C5_BatchAxisKept ==
    gen.pc = "suspended" =>
        LET a == Val(gen.args)
            images == Val(gen.yielded).list_inputs[1]
            labels == Val(gen.yielded).list_inputs[2]
        IN  /\ images.shape = <<a.batchsize>> \o WithChannelAxis(a)
            /\ labels.shape = <<a.batchsize>> \o a.im_shape \o <<1>>
            /\ Len(images.files) = a.batchsize
            /\ Len(labels.files) = a.batchsize

\* A batch of one single-channel image, yielded with both added axes.
C5_Witness ==
    /\ gen.pc = "suspended"
    /\ Val(gen.args).batchsize = 1
    /\ Val(gen.args).n_channels = 1
    /\ Val(gen.yielded).list_inputs[1].shape = <<1>> \o Val(gen.args).im_shape \o <<1>>

\* The volumes read during the last pull, without the header read of line 231.
VolumesRead == SelectSeq(gen.reads, LAMBDA r : r[1] # "get_volume_info")

\* C9: with num_pairs >= 1 images and as many label maps, after any number of
\* pulls the generator has not ended and can be pulled again, and the batch it
\* last yielded holds at each of its batchsize positions an image and a label
\* map of one same index i, 0 <= i < num_pairs, both read from storage during
\* that pull.
C9_BatchesPairedAndReread ==
    (gen.pc # "none" /\ Val(gen.args).n_images = Val(gen.args).n_labels
                     /\ Val(gen.args).n_labels >= 1) =>
        LET a == Val(gen.args)
            num_pairs == a.n_labels
        IN  /\ gen.pc \in {"created", "suspended"}
            /\ ENABLED PullBatch
            /\ gen.pc = "suspended" =>
                 LET images == Val(gen.yielded).list_inputs[1]
                     labels == Val(gen.yielded).list_inputs[2]
                 IN  /\ Len(images.files) = a.batchsize
                     /\ Len(labels.files) = a.batchsize
                     /\ Len(VolumesRead) = 2 * a.batchsize
                     /\ \A k \in 1..a.batchsize :
                          \E i \in 0..(num_pairs - 1) :
                             /\ images.files[k] = <<"image", i>>
                             /\ labels.files[k] = <<"labels", i>>
                             /\ VolumesRead[2 * k - 1] = <<"image", i>>
                             /\ VolumesRead[2 * k] = <<"labels", i>>

\* A second or later pull that drew the same pair twice in one batch.
C9_Witness ==
    /\ gen.pc = "suspended"
    /\ Val(gen.args).n_images = Val(gen.args).n_labels
    /\ Val(gen.args).batchsize = 2
    /\ Val(gen.yielded).indices[1] = Val(gen.yielded).indices[2]
    /\ Len(gen.reads) = 4

\* --------------------------------------------- claims: supervised_training
\* The calls that load a volume, build the augmentation model or the sample
\* generator, or sample batches.
Costly ==
    {"load_volume", "get_volume_info(path_images[0])", "build_augmentation_model",
     "build_model_inputs", "build_training_generator", "unet",
     "train_model(wl2)", "train_model(dice)"}

Misconfigured(a) ==
    \/ a.n_images # a.n_labels
    \/ ~((a.wl2_epochs > 0) \/ (a.dice_epochs > 0))

\* C3: with different numbers of image and label files, or with neither
\* wl2_epochs nor dice_epochs positive, supervised_training ends in an assertion
\* error with a message, having loaded no volume, built neither the augmentation
\* model nor the generator and sampled nothing; so every run that gets that
\* far has equal file counts and a positive epoch count.
C3_ConfigurationFailsFast ==
    st.pc = "ended" =>
        LET a == Val(st.args) IN
        /\ Misconfigured(a) =>
             /\ st.raised # None
             /\ Val(st.raised).error = "AssertionError"
             /\ Val(st.raised).what # ""
             /\ Val(st.raised).line \in {56, 62}
             /\ Range(st.events) \cap Costly = {}
        /\ (Range(st.events) \cap Costly # {}) =>
             /\ a.n_images = a.n_labels
             /\ (a.wl2_epochs > 0) \/ (a.dice_epochs > 0)

\* A run with more label maps than images: stopped at line 62 after the two
\* directory listings.
C3_Witness ==
    /\ st.pc = "ended"
    /\ Val(st.args).n_images < Val(st.args).n_labels
    /\ Val(st.args).path_segmentation_labels = None
    /\ st.raised # None
    /\ Val(st.raised).line = 62
    /\ Len(st.events) = 2

\* The first position of call x among the calls made, 0 when it was not made.
Position(events, x) ==
    IF x \in Range(events)
    THEN CHOOSE k \in 1..Len(events) :
            events[k] = x /\ \A j \in 1..(k - 1) : events[j] # x
    ELSE 0

\* C10: a run with valid arguments trains in order: with wl2_epochs > 0 the
\* weighted-L2 phase is trained, and before the Dice phase starts; with both
\* phases the Dice model loads the last wl2 checkpoint; load_model_file goes into
\* the wl2 model when wl2_epochs > 0 and into the Dice model only when
\* wl2_epochs <= 0; a phase with no positive epoch count is not run.
C10_PhasesOrdered ==
    (st.pc = "ended" /\ ~Misconfigured(Val(st.args))) =>
        LET a == Val(st.args)
            e == st.events
            made(x) == x \in Range(e)
        IN  /\ a.wl2_epochs > 0 =>
                 /\ made("train_model(wl2)")
                 /\ a.dice_epochs > 0 =>
                      Position(e, "train_model(wl2)") < Position(e, "metrics_model(dice)")
            /\ a.dice_epochs > 0 => made("train_model(dice)")
            /\ (a.wl2_epochs > 0 /\ a.dice_epochs > 0) =>
                 /\ made("dice_model.load_weights(wl2_<wl2_epochs>.h5)")
                 /\ Position(e, "dice_model.load_weights(wl2_<wl2_epochs>.h5)")
                      < Position(e, "train_model(dice)")
            /\ made("wl2_model.load_weights(load_model_file)")
                 <=> (a.wl2_epochs > 0 /\ a.load_model_file # None)
            /\ made("dice_model.load_weights(load_model_file)")
                 <=> (a.wl2_epochs <= 0 /\ a.dice_epochs > 0 /\ a.load_model_file # None)
            /\ a.wl2_epochs <= 0 => ~made("train_model(wl2)")
            /\ a.dice_epochs <= 0 => ~made("train_model(dice)")

\* ---------------------------------------- claims: build_augmentation_model
\* Arguments the function accepts: an affine matrix when flipping, and a
\* number (or False) as bias_field_std.
ValidAugmentation(a) ==
    /\ a.flipping => a.aff # None
    /\ a.bias_field_std # "None"

Resolved(a) == get_shapes(a.im_shape, a.output_shape, a.output_div_by_n).shape

\* C2: whatever stages are enabled, build_augmentation_model returns a model
\* whose image and label outputs both have the spatial shape get_shapes resolves
\* for (native shape, requested crop shape, output_div_by_n), the crop stage
\* being applied exactly when that shape differs from the native one.
C2_OutputShapeResolved ==
    (bam.pc = "ended" /\ ValidAugmentation(Val(bam.args))) =>
        LET a == Val(bam.args)
            f == Val(bam.frame)
        IN  /\ f.model # None
            /\ Val(f.model).image = Resolved(a) \o <<a.n_channels>>
            /\ Val(f.model).labels = Resolved(a) \o <<1>>
            /\ ("RandomCrop" \in Range(f.layers)) <=> (Resolved(a) # a.im_shape)

\* The stages that draw at random, each with the lines that construct it.
Randomized ==
    { [layer |-> "RandomSpatialDeformation", lines |-> {180}],
      [layer |-> "RandomCrop", lines |-> {194}],
      [layer |-> "RandomFlip", lines |-> {198, 201}],
      [layer |-> "BiasFieldCorruption", lines |-> {207}],
      [layer |-> "IntensityAugmentation(normalise, gamma_std=.5)", lines |-> {212}] }

StageOf(layer) == CHOOSE r \in Randomized : r.layer = layer

\* The function came to construct the stage: the layer is in the graph, or the
\* call that constructs it is the statement that raised.
Constructs(f, layer) ==
    \/ layer \in Range(f.layers)
    \/ f.raised # None /\ Val(f.raised).line \in StageOf(layer).lines

DeformationBounds(a) ==
    {a.scaling_bounds, a.rotation_bounds, a.shearing_bounds, a.translation_bounds,
     a.nonlin_std}

\* Every optional stage set to a disabling value, as the claim lists them.
AllDisabled(a) ==
    /\ DeformationBounds(a) \subseteq {"False", "0", "None"}
    /\ ~a.flipping
    /\ a.bias_field_std = "0"
    /\ Resolved(a) = a.im_shape

AllFalse(a) ==
    /\ DeformationBounds(a) = {"False"}
    /\ ~a.flipping
    /\ a.bias_field_std \in {"0", "False"}
    /\ Resolved(a) = a.im_shape

LabelThrough(a, f, id) == labels_decoded(a, f, labels_encoded(a, f, id))

Partner(list, n_neutral_labels, id) ==
    LET k == CHOOSE j \in 1..Len(list) : list[j] = id
    IN  IF k <= n_neutral_labels THEN id
        ELSE IF (k - n_neutral_labels) % 2 = 1 THEN list[k + 1] ELSE list[k - 1]

====
